---------------------------- MODULE Spec2Model ----------------------------
(***************************************************************************)
(* Model of the symmetry core of JDFTx (electronic/Symmetries.cpp):        *)
(* discovery and validation of the point group (setup), k-mesh reduction   *)
(* (reduceKmesh), mesh commensuration and orbit table (setupMesh) and the  *)
(* lazily built spherical-harmonic cache (getSphericalMatrices).           *)
(*                                                                         *)
(* Fractional coordinates (vector3<>) are fixed-point numbers: an integer  *)
(* numerator over the denominator Q.  Vectors are 3-tuples, matrices are   *)
(* 3-tuples of rows.  Sequences are 1-based; atom indices stored in        *)
(* atomMap and grid indices stored in symmIndex keep the code's 0-based    *)
(* values.                                                                 *)
(***************************************************************************)
EXTENDS Integers, Sequences, FiniteSets, TLC

\* ---------------------------------------------------------------- bounds
\* Resolution of the fixed-point coordinates: Q = 24 * Res units per period.
Res == 1
\* Longest k-point list handed to reduceKmesh.
MaxK == 3
\* Number of concurrent callers of getSphericalMatrices.
NThreads == 2

Q == 24 * Res
\* One twelfth of a period; always an even number of units.
U == 2 * Res

\* ------------------------------------------------------- program constants
lMaxSpherical == 3

\* ------------------------------------------------------ vectors, matrices
Axes == 1..3

Abs(x) == IF x < 0 THEN -x ELSE x

VAdd(a, b) == [k \in Axes |-> a[k] + b[k]]
VSub(a, b) == [k \in Axes |-> a[k] - b[k]]
VNeg(a) == [k \in Axes |-> -a[k]]
VScale(s, a) == [k \in Axes |-> s * a[k]]
\* 0.5*(a+b): exact, every stored numerator is even
VMid(a, b) == [k \in Axes |-> (a[k] + b[k]) \div 2]

MatVec(m, v) == [i \in Axes |-> m[i][1]*v[1] + m[i][2]*v[2] + m[i][3]*v[3]]
Transpose(m) == [i \in Axes |-> [j \in Axes |-> m[j][i]]]
MatNeg(m) == [i \in Axes |-> [j \in Axes |-> -m[i][j]]]
MatMul(a, b) ==
  [i \in Axes |-> [j \in Axes |-> a[i][1]*b[1][j] + a[i][2]*b[2][j] + a[i][3]*b[3][j]]]
Diag3(a, b, c) == << <<a, 0, 0>>, <<0, b, 0>>, <<0, 0, c>> >>

identity == Diag3(1, 1, 1)
Inversion == Diag3(-1, -1, -1)
C2z == Diag3(-1, -1, 1)
Mz == Diag3(1, 1, -1)
Mx == Diag3(-1, 1, 1)
\* 4-fold rotation about axis 2: (x,y,z) -> (-y,x,z)
C4z == << <<0, -1, 0>>, <<1, 0, 0>>, <<0, 0, 1>> >>
C4z3 == << <<0, 1, 0>>, <<-1, 0, 0>>, <<0, 0, 1>> >>
\* 3-fold rotation of a rhombohedral cell: cyclic permutation of the axes
C3 == << <<0, 0, 1>>, <<1, 0, 0>>, <<0, 1, 0>> >>
C3sq == << <<0, 1, 0>>, <<0, 0, 1>>, <<1, 0, 0>> >>
SwapXY == << <<0, 1, 0>>, <<1, 0, 0>>, <<0, 0, 1>> >>
SwapYZ == << <<1, 0, 0>>, <<0, 0, 1>>, <<0, 1, 0>> >>
SwapXZ == << <<0, 0, 1>>, <<0, 1, 0>>, <<1, 0, 0>> >>

Zero3 == <<0, 0, 0>>

\* Distance of two fractional points on the 3-torus, squared, in units of
\* (1/Q)^2: every axis wraps to the nearest periodic image.
WrapDist(d) == LET r == d % Q IN IF 2 * r > Q THEN Q - r ELSE r
circDistanceSquared(a, b) ==
  WrapDist(a[1] - b[1]) * WrapDist(a[1] - b[1])
  + WrapDist(a[2] - b[2]) * WrapDist(a[2] - b[2])
  + WrapDist(a[3] - b[3]) * WrapDist(a[3] - b[3])

\* C++ integer remainder (sign of the dividend) and round() (half away from 0)
CRem(a, b) == IF a >= 0 THEN a % b ELSE -((-a) % b)
RoundDiv(num, den) ==
  IF num >= 0 THEN (2 * num + den) \div (2 * den)
  ELSE -((2 * (-num) + den) \div (2 * den))

RECURSIVE SumSeq(_)
SumSeq(s) == IF s = <<>> THEN 0 ELSE Head(s) + SumSeq(Tail(s))

RECURSIVE Flatten(_)
Flatten(ss) == IF ss = <<>> THEN <<>> ELSE Head(ss) \o Flatten(Tail(ss))

Range(s) == {s[i] : i \in 1..Len(s)}

\* --------------------------------------------- inputs: lattice symmetries
\* What the lattice symmetry finder (getSymmetries) returns for a triclinic,
\* monoclinic, tetragonal and rhombohedral Bravais lattice.
Triclinic == <<Inversion, identity>>
Monoclinic == <<identity, Inversion, C2z, Mz>>
Signs8 ==
  << Diag3(1,1,1), Diag3(-1,-1,-1), Diag3(-1,-1,1), Diag3(1,1,-1),
     Diag3(-1,1,1), Diag3(1,-1,1), Diag3(1,-1,-1), Diag3(-1,1,-1) >>
Tetragonal == Signs8 \o [i \in 1..8 |-> MatMul(Signs8[i], SwapXY)]
Perms6 == <<C3, C3sq, identity, SwapXY, SwapYZ, SwapXZ>>
Rhombohedral == Perms6 \o [i \in 1..6 |-> MatNeg(Perms6[i])]

\* ------------------------------------------------- inputs: atom structures
\* atpos[sp][a]: position; moments[sp]: empty or one moment per atom;
\* moveScale[sp][a]: the atom's movement constraint.
OneAtom ==
  [atpos |-> << <<Zero3>> >>, moments |-> << <<>> >>, moveScale |-> << <<1>> >>]
\* antiferromagnetic pair at -1/4 and +1/4 along axis 0
AntiFerro ==
  [atpos |-> << << <<3*U, 0, 0>>, <<9*U, 0, 0>> >> >>,
   moments |-> << <<1, -1>> >>, moveScale |-> << <<1, 1>> >>]
\* the same pair without moments, one atom frozen
FrozenPair ==
  [atpos |-> << << <<3*U, 0, 0>>, <<9*U, 0, 0>> >> >>,
   moments |-> << <<>> >>, moveScale |-> << <<1, 0>> >>]
\* a pair whose inversion centre is its midpoint, not the origin
OffCentre ==
  [atpos |-> << << <<U, 0, 0>>, <<3*U, 0, 0>> >> >>,
   moments |-> << <<>> >>, moveScale |-> << <<1, 1>> >>]
\* a pair that is inversion symmetric only within two units
NearPair ==
  [atpos |-> << << <<3*U, 0, 0>>, <<9*U + 2, 0, 0>> >> >>,
   moments |-> << <<>> >>, moveScale |-> << <<1, 1>> >>]
\* two species, two triangles around the centre <<2U,0,0>>, one the inverse
\* of the other
RingCentre == <<2*U, 0, 0>>
RingArm == <<U, 2*U, 4*U>>
TwoTriangles ==
  [atpos |->
     << [i \in 1..3 |-> VAdd(RingCentre, MatVec(<<identity, C3, C3sq>>[i], RingArm))],
        [i \in 1..3 |-> VSub(RingCentre, MatVec(<<identity, C3, C3sq>>[i], RingArm))] >>,
   moments |-> << <<>>, <<>> >>,
   moveScale |-> << <<1, 1, 1>>, <<1, 1, 1>> >>]


\* ------------------------------------------------------------------ state
VARIABLES
  status,            \* "constructed", "ready" (setup returned), "meshed"
                     \* (setupMesh returned) or "dead" (die was called)
  dieMsg,            \* which die() ended the process ("" while it runs)
  mode,              \* Symmetries::mode
  shouldMoveAtoms,   \* Symmetries::shouldMoveAtoms
  symmThresholdSq,   \* tolerance^2 in units of (1/Q)^2
  symLattice,        \* what getSymmetries returns for the lattice
  atpos, moments, moveScale,   \* e->iInfo.species[sp]
  sym,               \* Symmetries::sym
  atomMap,           \* Symmetries::atomMap
  S,                 \* e->gInfo.S
  embed, embedCenter,\* e->coulombParams
  symMesh,           \* Symmetries::symMesh
  symmIndex,         \* Symmetries::symmIndex (nSymmIndex is its length)
  qnums,             \* the caller's k-point vector
  kpc,               \* the caller of reduceKmesh: "idle" or "returned"
  qlist,             \* the list reduceKmesh returned
  kpointInvertList,  \* Symmetries::kpointInvertList
  symSpherical,      \* Symmetries::symSpherical[l], l in 0..lMaxSpherical
  tpc, tl, tRot,     \* per thread: position in getSphericalMatrices, l, iRot
  tret,              \* per thread: the list its last call returned, as seen
                     \* at the return
  nBuilt,            \* per l: how often the entry was resized for building
  returnedL,         \* per l: some call for l has returned
  lateWrite          \* per l: the entry was written after a call returned

structVars == <<atpos, moments, moveScale>>
confVars == <<mode, shouldMoveAtoms, symmThresholdSq, symLattice>>
gridVars == <<S, embed>>
meshVars == <<symMesh, symmIndex>>
kVars == <<qnums, kpc, qlist, kpointInvertList>>
sphVars == <<symSpherical, tpc, tl, tRot, tret, nBuilt, returnedL, lateWrite>>
vars == <<status, dieMsg, confVars, structVars, sym, atomMap, gridVars,
          embedCenter, meshVars, kVars, sphVars>>

nSpecies == Len(atpos)
nAtoms(sp) == Len(atpos[sp])

\* ------------------------------------------------------------ basisReduce
\* The spin check of one image: no moments given, or equal moments.
SpinSymmetric(sp, a1, a2) ==
  moments[sp] = <<>> \/ moments[sp][a1] = moments[sp][a2]

\* Whether m (about offset) maps every atom onto an atom of its species.
MapsBasis(m, offset) ==
  \A sp \in 1..nSpecies : \A a1 \in 1..nAtoms(sp) :
    \E a2 \in 1..nAtoms(sp) :
      /\ circDistanceSquared(
           VAdd(offset, MatVec(m, VSub(atpos[sp][a1], offset))), atpos[sp][a2])
           < symmThresholdSq
      /\ SpinSymmetric(sp, a1, a2)

basisReduce(symLat, offset) ==
  SelectSeq(symLat, LAMBDA m : MapsBasis(m, offset))

\* --------------------------------------------------------- sortSymmetries
Swap1(s, i) == [s EXCEPT ![1] = s[i], ![i] = s[1]]

RECURSIVE SortFrom(_, _)
SortFrom(s, i) ==
  IF i > Len(s) THEN s
  ELSE SortFrom(IF s[i] = identity THEN Swap1(s, i) ELSE s, i + 1)

sortSymmetries(s) == SortFrom(s, 2)

\* --------------------------------------------------------- calcSymmetries
\* Mutant: only the atom positions are candidates, no midpoints.
rCenterCandidates_AtomsOnly == Flatten(atpos)

\* Candidate centres of one species, in the order the code pushes them:
\* atom n1, then its midpoints with every earlier atom n2 < n1.
RECURSIVE SpeciesCandidates(_, _)
SpeciesCandidates(pos, n1) ==
  IF n1 > Len(pos) THEN <<>>
  ELSE <<pos[n1]>> \o [n2 \in 1..(n1 - 1) |-> VMid(pos[n1], pos[n2])]
       \o SpeciesCandidates(pos, n1 + 1)

rCenterCandidates ==
  Flatten([sp \in 1..nSpecies |-> SpeciesCandidates(atpos[sp], 1)])

\* The loop over the candidates: a candidate replaces the current centre and
\* group when it keeps strictly more operations.
RECURSIVE BestCenter(_, _)
BestCenter(cands, cur) ==
  IF cands = <<>> THEN cur
  ELSE LET symTemp == basisReduce(symLattice, Head(cands))
       IN BestCenter(Tail(cands),
            IF Len(symTemp) > Len(cur.sym)
            THEN [rCenter |-> Head(cands), sym |-> symTemp]
            ELSE cur)

\* Result of calcSymmetries: the group, the positions and whether it died.
calcSymmetries ==
  LET sym0 == sortSymmetries(basisReduce(symLattice, Zero3))
      best == BestCenter(rCenterCandidates, [rCenter |-> Zero3, sym |-> sym0])
  IN IF shouldMoveAtoms /\ Len(best.sym) > Len(sym0)
     THEN [die |-> "moveAtoms", sym |-> best.sym,
           atpos |-> [sp \in 1..nSpecies |->
                        [a \in 1..nAtoms(sp) |-> VSub(atpos[sp][a], best.rCenter)]]]
     ELSE [die |-> "", sym |-> sym0, atpos |-> atpos]

\* --------------------------------------------------------- checkSymmetries
\* Manual matrices: every atom must have an image at the mapped position.
checkSymmetries(s) ==
  \A i \in 1..Len(s) : \A sp \in 1..nSpecies : \A a1 \in 1..nAtoms(sp) :
    \E a2 \in 1..nAtoms(sp) :
      circDistanceSquared(MatVec(s[i], atpos[sp][a1]), atpos[sp][a2])
        < symmThresholdSq

\* ------------------------------------------------------------ initAtomMaps
\* The atoms at2 found at the image of at1 under s[iRot].
Images(s, sp, at1, iRot) ==
  {at2 \in 1..nAtoms(sp) :
     circDistanceSquared(MatVec(s[iRot], atpos[sp][at1]), atpos[sp][at2])
       < symmThresholdSq}

\* Movement constraints of two atoms are equivalent.
isEquivalent(sp, at1, at2) == moveScale[sp][at1] = moveScale[sp][at2]

Max(set) == CHOOSE x \in set : \A y \in set : y <= x

\* atomMap[sp][at1][iRot]: the last matching atom (0-based), 0 when none.
initAtomMaps(s) ==
  [sp \in 1..nSpecies |-> [at1 \in 1..nAtoms(sp) |-> [iRot \in 1..Len(s) |->
     IF Images(s, sp, at1, iRot) = {} THEN 0
     ELSE Max(Images(s, sp, at1, iRot)) - 1]]]

AtomMapsDie(s) ==
  \E sp \in 1..nSpecies : \E at1 \in 1..nAtoms(sp) : \E iRot \in 1..Len(s) :
    \E at2 \in Images(s, sp, at1, iRot) : ~isEquivalent(sp, at1, at2)

\* ------------------------------------------------------------------ setup
\* The group setup() arrives at before initAtomMaps, or the die() on the way.
SetupGroup ==
  CASE mode = "Automatic" -> calcSymmetries
    [] mode = "Manual" ->
         IF sym = <<>> THEN [die |-> "noMatrices", sym |-> sym, atpos |-> atpos]
         ELSE IF ~checkSymmetries(sortSymmetries(sym))
              THEN [die |-> "disagree", sym |-> sortSymmetries(sym), atpos |-> atpos]
              ELSE [die |-> "", sym |-> sortSymmetries(sym), atpos |-> atpos]
    [] OTHER -> [die |-> "", sym |-> <<identity>>, atpos |-> atpos]

Setup ==
  /\ status = "constructed"
  /\ LET g == SetupGroup IN
       /\ sym' = g.sym
       /\ atpos' = g.atpos
       /\ IF g.die # ""
          THEN /\ status' = "dead" /\ dieMsg' = g.die
               /\ UNCHANGED atomMap
          ELSE IF AtomMapsDie(g.sym)
          THEN /\ status' = "dead" /\ dieMsg' = "constraints"
               /\ UNCHANGED atomMap
          ELSE /\ status' = "ready" /\ dieMsg' = ""
               /\ atomMap' = initAtomMaps(g.sym)
  /\ UNCHANGED <<confVars, moments, moveScale, gridVars, embedCenter,
                 meshVars, kVars, sphVars>>

\* ------------------------------------------------------------------- Init
Threads == 1..NThreads
Ls == 0..lMaxSpherical

\* The Symmetries object as constructed, before setup.
InitObject ==
  /\ status = "constructed" /\ dieMsg = ""
  /\ atomMap = <<>> /\ symMesh = <<>> /\ symmIndex = <<>>
  /\ kpc = "idle" /\ qlist = <<>> /\ kpointInvertList = <<>>
  /\ symSpherical = [l \in Ls |-> <<>>]
  /\ tpc = [t \in Threads |-> "idle"]
  /\ tl = [t \in Threads |-> 0]
  /\ tRot = [t \in Threads |-> 0]
  /\ tret = [t \in Threads |-> <<>>]
  /\ nBuilt = [l \in Ls |-> 0]
  /\ returnedL = [l \in Ls |-> FALSE]
  /\ lateWrite = [l \in Ls |-> FALSE]

\* The configuration read from the input file: the mode with its matrices or
\* lattice, the structure, the tolerance.
InitConf(Structs, Lats, Manuals, Tols, Moves) ==
  /\ \E st \in Structs :
       atpos = st.atpos /\ moments = st.moments /\ moveScale = st.moveScale
  /\ symmThresholdSq \in Tols
  /\ \/ /\ mode = "None" /\ sym = <<>> /\ symLattice = <<>>
        /\ shouldMoveAtoms = FALSE
     \/ /\ mode = "Automatic" /\ sym = <<>> /\ symLattice \in Lats
        /\ shouldMoveAtoms \in Moves
     \/ /\ mode = "Manual" /\ sym \in Manuals /\ symLattice = <<>>
        /\ shouldMoveAtoms = FALSE

Structures == {OneAtom, AntiFerro, FrozenPair, OffCentre, NearPair, TwoTriangles}
Lattices == {Triclinic, Monoclinic, Tetragonal, Rhombohedral}
ManualLists ==
  { <<>>, <<identity>>, <<Inversion, identity>>, <<identity, C4z>>,
    <<C2z, Mz>>, <<identity, C4z, C2z, C4z3>>, <<C2z>> }
\* exact matching, and matching within two units
Tolerances == {1, 5}

NoGrid == /\ S = <<1, 1, 1>> /\ embed = FALSE /\ embedCenter = Zero3
NoKpoints == qnums = <<>>

\* ------------------------------------------- specification of setup alone
InitSetup ==
  /\ InitObject
  /\ InitConf(Structures, Lattices, ManualLists, Tolerances, BOOLEAN)
  /\ NoGrid /\ NoKpoints

NextSetup == Setup

SpecSetup == InitSetup /\ [][NextSetup]_vars


Alive == status \in {"ready", "meshed"}

\* ------------------------------------------------------------ reduceKmesh
\* Whether some operation maps k-point ki onto invert*kj.
Equivalent(ki, kj, invert) ==
  \E n \in 1..Len(sym) :
    circDistanceSquared(MatVec(Transpose(sym[n]), ki), VScale(invert, kj))
      < symmThresholdSq

\* Mutant: the absorbed weight is lost.
Absorb_Lost(qi, qj) == qi

\* State i absorbs the weight of an equivalent state j.
Absorb(qi, qj) == [qi EXCEPT !.weight = qi.weight + qj.weight]

\* Mutant: after an erase the iterator is advanced once more, so the state
\* that follows an erased one is never compared.
RECURSIVE Gobble_SkipAfterErase(_, _, _)
Gobble_SkipAfterErase(qi, rest, invert) ==
  IF rest = <<>> THEN [q |-> qi, rest |-> <<>>, found |-> FALSE]
  ELSE IF Equivalent(qi.k, Head(rest).k, invert)
       THEN IF Tail(rest) = <<>>
            THEN [q |-> Absorb(qi, Head(rest)), rest |-> <<>>, found |-> TRUE]
            ELSE LET g == Gobble_SkipAfterErase(Absorb(qi, Head(rest)),
                                                 Tail(Tail(rest)), invert)
                 IN [g EXCEPT !.found = TRUE,
                              !.rest = <<Head(Tail(rest))>> \o g.rest]
       ELSE LET g == Gobble_SkipAfterErase(qi, Tail(rest), invert)
            IN [g EXCEPT !.rest = <<Head(rest)>> \o g.rest]

\* The inner loop: state qi gobbles up every equivalent state of `rest`.
RECURSIVE Gobble(_, _, _)
Gobble(qi, rest, invert) ==
  IF rest = <<>> THEN [q |-> qi, rest |-> <<>>, found |-> FALSE]
  ELSE IF Equivalent(qi.k, Head(rest).k, invert)
       THEN LET g == Gobble(Absorb(qi, Head(rest)), Tail(rest), invert)
            IN [g EXCEPT !.found = TRUE]
       ELSE LET g == Gobble(qi, Tail(rest), invert)
            IN [g EXCEPT !.rest = <<Head(rest)>> \o g.rest]

\* One pass of the outer loop over the list, for one value of invert.
RECURSIVE Pass(_, _)
Pass(list, invert) ==
  IF list = <<>> THEN [list |-> <<>>, found |-> FALSE]
  ELSE LET g == Gobble(Head(list), Tail(list), invert)
           p == Pass(g.rest, invert)
       IN [list |-> <<g.q>> \o p.list, found |-> g.found \/ p.found]

\* Mutant: no early return in mode None.
reduceKmesh_NoEarlyReturn(q) ==
  LET p1 == Pass(q, 1)
      p2 == Pass(p1.list, -1)
  IN [qlist |-> p2.list, invertList |-> IF p2.found THEN <<1, -1>> ELSE <<1>>]

\* reduceKmesh(q): the returned list and the value kpointInvertList has after
\* the call (untouched on the early return of mode None).
reduceKmesh(q) ==
  IF mode = "None" THEN [qlist |-> q, invertList |-> kpointInvertList]
  ELSE LET p1 == Pass(q, 1)
           p2 == Pass(p1.list, -1)
       IN [qlist |-> p2.list,
           invertList |-> IF p2.found THEN <<1, -1>> ELSE <<1>>]

ReduceKmesh ==
  /\ Alive /\ kpc = "idle"
  /\ LET r == reduceKmesh(qnums) IN
       /\ qlist' = r.qlist
       /\ kpointInvertList' = r.invertList
  /\ kpc' = "returned"
  /\ UNCHANGED <<status, dieMsg, confVars, structVars, sym, atomMap, gridVars,
                 embedCenter, meshVars, qnums, sphVars>>

\* ----------------------------------------------------- inputs: k-points
\* k = 1/4, -1/4 along axis 0, 1/4 along axis 1, and a point two units off
\* the first
QuantumNumbers ==
  {[k |-> k, weight |-> w] : k \in {<<Q \div 4, 0, 0>>, <<3 * (Q \div 4), 0, 0>>},
                             w \in {1, 2}}
  \cup {[k |-> <<0, Q \div 4, 0>>, weight |-> 1],
        [k |-> <<(Q \div 4) + 2, 0, 0>>, weight |-> 2]}
KLists == UNION {[1..n -> QuantumNumbers] : n \in 0..MaxK}

\* ------------------------------------- specification of k-mesh reduction
InitKmesh ==
  /\ InitObject
  /\ \/ InitConf({OneAtom}, {Triclinic, Tetragonal},
                 {<<identity>>, <<identity, C4z>>}, Tolerances, {FALSE})
     \/ InitConf({OffCentre}, {Triclinic}, {}, {1}, {FALSE})
  /\ NoGrid
  /\ qnums \in KLists

NextKmesh == Setup \/ ReduceKmesh

SpecKmesh == InitKmesh /\ [][NextKmesh]_vars

\* ------------------------------------------------------------ checkFFTbox
\* Mutant: the remainder is taken by the row's dimension.
Commensurate_WrongAxis(m) ==
  \A i \in Axes : \A j \in Axes : CRem(S[i] * m[i][j], S[i]) = 0

\* Diag(S) * m * Diag(inv(S)) is integral.
Commensurate(m) ==
  \A i \in Axes : \A j \in Axes : CRem(S[i] * m[i][j], S[j]) = 0

MeshMatrix(m) == [i \in Axes |-> [j \in Axes |-> (S[i] * m[i][j]) \div S[j]]]

\* The embedding centre is left where it is by m, within the tolerance.
Invariant(x, m) == ~(circDistanceSquared(x, MatVec(m, x)) > symmThresholdSq)

\* Mutant: the grid index is truncated, not rounded.
NearestGridIndex_Truncated ==
  [k \in Axes |-> IF embedCenter[k] >= 0
                  THEN (embedCenter[k] * S[k]) \div Q
                  ELSE -(((-embedCenter[k]) * S[k]) \div Q)]

\* iv0[k] = round(c[k]*S[k])
NearestGridIndex == [k \in Axes |-> RoundDiv(embedCenter[k] * S[k], Q)]

\* invDiagS * iv
GridPoint(iv) == [k \in Axes |-> iv[k] * (Q \div S[k])]

\* The values dv[2] takes: from -d1 in steps of 2*max(1,d1) while <= d1.
Dv2Values(d1) ==
  LET step == 2 * (IF d1 > 1 THEN d1 ELSE 1)
  IN [n \in 1..(((2 * d1) \div step) + 1) |-> -d1 + (n - 1) * step]

\* The offsets dv the three inner loops visit for one d, in their order.
Shell(d) ==
  Flatten([a \in 1..(2 * d + 1) |->
    LET dv0 == a - d - 1
        d0 == d - Abs(dv0)
    IN Flatten([b \in 1..(2 * d0 + 1) |->
         LET dv1 == b - d0 - 1
             d1 == d0 - Abs(dv1)
         IN [n \in 1..Len(Dv2Values(d1)) |-> <<dv0, dv1, Dv2Values(d1)[n]>>]])])

ValidCenter(iv) == \A n \in 1..Len(sym) : Invariant(GridPoint(iv), sym[n])

\* Mutant: the search gives up after half as many shells.
RECURSIVE SearchCenter_ShortBound(_, _)
SearchCenter_ShortBound(iv0, d) ==
  IF d > (S[1] + S[2] + S[3]) \div 4 THEN [found |-> FALSE, x |-> Zero3]
  ELSE LET hits == SelectSeq(Shell(d), LAMBDA dv : ValidCenter(VAdd(iv0, dv)))
       IN IF hits # <<>>
          THEN [found |-> TRUE, x |-> GridPoint(VAdd(iv0, Head(hits)))]
          ELSE SearchCenter_ShortBound(iv0, d + 1)

\* The search outwards from iv0: the first valid point, or none.
RECURSIVE SearchCenter(_, _)
SearchCenter(iv0, d) ==
  IF d > ((S[1] + S[2] + S[3]) \div 2) + 1 THEN [found |-> FALSE, x |-> Zero3]
  ELSE LET hits == SelectSeq(Shell(d), LAMBDA dv : ValidCenter(VAdd(iv0, dv)))
       IN IF hits # <<>>
          THEN [found |-> TRUE, x |-> GridPoint(VAdd(iv0, Head(hits)))]
          ELSE SearchCenter(iv0, d + 1)

\* checkFFTbox: the die() it ends in, or the mesh matrices and the centre.
checkFFTbox ==
  IF \E n \in 1..Len(sym) : ~Commensurate(sym[n])
  THEN [die |-> "incommensurate", symMesh |-> symMesh, center |-> embedCenter]
  ELSE LET mesh == [n \in 1..Len(sym) |-> MeshMatrix(sym[n])] IN
    IF ~embed THEN [die |-> "", symMesh |-> mesh, center |-> embedCenter]
    ELSE IF \E n \in 1..Len(sym) : ~Invariant(embedCenter, sym[n])
    THEN [die |-> "centerNotInvariant", symMesh |-> mesh, center |-> embedCenter]
    ELSE LET found == SearchCenter(NearestGridIndex, 0) IN
      IF found.found THEN [die |-> "", symMesh |-> mesh, center |-> found.x]
      ELSE [die |-> "noGridCenter", symMesh |-> mesh, center |-> embedCenter]

\* ---------------------------------------------------------- initSymmIndex
nr == S[1] * S[2] * S[3]

\* The grid point with flat index idx (the loops run in this order).
RCoord(idx) == <<idx \div (S[2] * S[3]), (idx \div S[3]) % S[2], idx % S[3]>>

fullRindex(r) == r[3] + S[3] * (r[2] + S[2] * r[1])

\* Flat index of a point whose coordinates may be negative.
fullGindex(iG) ==
  fullRindex([k \in Axes |-> IF iG[k] < 0 THEN iG[k] + S[k] ELSE iG[k]])

\* The images of r under every mesh matrix, projected back into range.
OrbitRow(mesh, r) ==
  [n \in 1..Len(mesh) |->
     fullGindex([i \in Axes |-> CRem(MatVec(mesh[n], r)[i], S[i])])]

\* Mutant: the images are not marked as handled.
MarkDone_Forgotten(done, row) == done

\* done[index2] = true for every image of the row
MarkDone(done, row) == done \cup Range(row)

RECURSIVE OrbitTable(_, _, _)
OrbitTable(mesh, idx, done) ==
  IF idx >= nr THEN <<>>
  ELSE IF idx \in done THEN OrbitTable(mesh, idx + 1, done)
  ELSE OrbitRow(mesh, RCoord(idx))
       \o OrbitTable(mesh, idx + 1, MarkDone(done, OrbitRow(mesh, RCoord(idx))))

initSymmIndex(mesh) ==
  IF Len(sym) = 1 THEN symmIndex ELSE OrbitTable(mesh, 0, {})

\* -------------------------------------------------------------- setupMesh
\* checkFFTbox, checkKmesh (which only logs a warning), initSymmIndex.
SetupMesh ==
  /\ status = "ready"
  /\ LET c == checkFFTbox IN
       /\ symMesh' = c.symMesh
       /\ embedCenter' = c.center
       /\ IF c.die # ""
          THEN /\ status' = "dead" /\ dieMsg' = c.die
               /\ UNCHANGED symmIndex
          ELSE /\ status' = "meshed" /\ dieMsg' = ""
               /\ symmIndex' = initSymmIndex(c.symMesh)
  /\ UNCHANGED <<confVars, structVars, sym, atomMap, gridVars, kVars, sphVars>>

\* ------------------------------------------------ inputs: grids, centres
Grids == { <<4, 4, 4>>, <<3, 4, 4>>, <<3, 3, 1>>, <<2, 2, 2>>, <<1, 2, 3>> }
Centers ==
  { Zero3, <<0, 0, Q \div 2>>, <<0, 0, (Q \div 2) + 1>>, <<Q \div 8, 0, 0>>,
    <<-(Q \div 8), 0, 0>>, <<Q \div 2, Q \div 2, 0>> }

InitGrid ==
  /\ S \in Grids
  /\ \/ embed = FALSE /\ embedCenter = Zero3
     \/ embed = TRUE /\ embedCenter \in Centers

\* ------------------------------------------ specification of mesh setup
InitMesh ==
  /\ InitObject
  /\ InitConf({OneAtom}, Lattices,
              { <<identity>>, <<identity, C4z>>, <<C2z, Mz>>,
                <<identity, C4z, C2z, C4z3>>, <<C2z>> },
              Tolerances, {FALSE})
  /\ InitGrid /\ NoKpoints

NextMesh == Setup \/ SetupMesh

SpecMesh == InitMesh /\ [][NextMesh]_vars

\* --------------------------------------------------- getSphericalMatrices
\* An element of symSpherical[l]: a default-constructed matrix, or the
\* matrix bRot * bOrigInv computed for the rotation rot.
RawMatrix == [filled |-> FALSE, rot |-> Diag3(0, 0, 0)]
SphericalMatrix(rot) == [filled |-> TRUE, rot |-> rot]

\* std::vector::resize(n): keeps the leading elements, appends defaults.
Resize(v, n) == [i \in 1..n |-> IF i <= Len(v) THEN v[i] ELSE RawMatrix]

\* A thread enters getSphericalMatrices(l), done with the list of its last
\* call; l > lMaxSpherical is fatal.
SphCall(t) ==
  /\ Alive /\ tpc[t] = "idle"
  /\ \E l \in 0..(lMaxSpherical + 1) :
       IF l > lMaxSpherical
       THEN /\ status' = "dead" /\ dieMsg' = "lTooLarge"
            /\ UNCHANGED <<tpc, tl>>
       ELSE /\ tl' = [tl EXCEPT ![t] = l]
            /\ tpc' = [tpc EXCEPT ![t] = "check"]
            /\ UNCHANGED <<status, dieMsg>>
  /\ tret' = [tret EXCEPT ![t] = <<>>]
  /\ UNCHANGED <<confVars, structVars, sym, atomMap, gridVars, embedCenter,
                 meshVars, kVars, symSpherical, tRot, nBuilt,
                 returnedL, lateWrite>>

\* if(!symSpherical[l].size()): build, or return what is there.
SphCheck(t) ==
  /\ Alive /\ tpc[t] = "check"
  /\ tpc' = [tpc EXCEPT ![t] =
               IF Len(symSpherical[tl[t]]) = 0 THEN "resize" ELSE "return"]
  /\ UNCHANGED <<status, dieMsg, confVars, structVars, sym, atomMap, gridVars,
                 embedCenter, meshVars, kVars, symSpherical, tl, tRot, tret,
                 nBuilt, returnedL, lateWrite>>

\* out.resize(sym.size()), after the basis matrices were made locally.
SphResize(t) ==
  /\ Alive /\ tpc[t] = "resize"
  /\ symSpherical' =
       [symSpherical EXCEPT ![tl[t]] = Resize(symSpherical[tl[t]], Len(sym))]
  /\ nBuilt' = [nBuilt EXCEPT ![tl[t]] = nBuilt[tl[t]] + 1]
  /\ lateWrite' = [lateWrite EXCEPT ![tl[t]] = lateWrite[tl[t]] \/ returnedL[tl[t]]]
  /\ tRot' = [tRot EXCEPT ![t] = 0]
  /\ tpc' = [tpc EXCEPT ![t] = "fill"]
  /\ UNCHANGED <<status, dieMsg, confVars, structVars, sym, atomMap, gridVars,
                 embedCenter, meshVars, kVars, tl, tret, returnedL>>

\* One turn of the loop over iRot: out[iRot] = bRot * bOrigInv.
SphFill(t) ==
  /\ Alive /\ tpc[t] = "fill"
  /\ symSpherical' =
       [symSpherical EXCEPT ![tl[t]][tRot[t] + 1] = SphericalMatrix(sym[tRot[t] + 1])]
  /\ lateWrite' = [lateWrite EXCEPT ![tl[t]] = lateWrite[tl[t]] \/ returnedL[tl[t]]]
  /\ tRot' = [tRot EXCEPT ![t] = tRot[t] + 1]
  /\ tpc' = [tpc EXCEPT ![t] = IF tRot[t] + 1 < Len(sym) THEN "fill" ELSE "return"]
  /\ UNCHANGED <<status, dieMsg, confVars, structVars, sym, atomMap, gridVars,
                 embedCenter, meshVars, kVars, tl, tret, nBuilt, returnedL>>

\* return symSpherical[l]: the caller reads the entry as it is now; the
\* call's locals are gone.
SphReturn(t) ==
  /\ Alive /\ tpc[t] = "return"
  /\ tret' = [tret EXCEPT ![t] = symSpherical[tl[t]]]
  /\ returnedL' = [returnedL EXCEPT ![tl[t]] = TRUE]
  /\ tpc' = [tpc EXCEPT ![t] = "idle"]
  /\ tl' = [tl EXCEPT ![t] = 0]
  /\ tRot' = [tRot EXCEPT ![t] = 0]
  /\ UNCHANGED <<status, dieMsg, confVars, structVars, sym, atomMap, gridVars,
                 embedCenter, meshVars, kVars, symSpherical, nBuilt, lateWrite>>

\* ------------------------------- specification of the spherical cache
InitSpherical ==
  /\ InitObject
  /\ InitConf({OneAtom}, {Triclinic}, {<<identity>>}, {1}, {FALSE})
  /\ NoGrid /\ NoKpoints

NextSpherical ==
  \/ Setup
  \/ \E t \in Threads :
       SphCall(t) \/ SphCheck(t) \/ SphResize(t) \/ SphFill(t) \/ SphReturn(t)

SpecSpherical == InitSpherical /\ [][NextSpherical]_vars

\* ---------------------------------------------------------- claims: setup

\* C1: after setup() returned, in any mode, every operation of the group
\* passes the check basisReduce applies with zero offset: every atom has an
\* image of its species at the mapped position with the same magnetic
\* moment; a manual matrix failing it ends the process instead.
C1_EveryOperationMapsBasis ==
  Alive => \A i \in 1..Len(sym) : MapsBasis(sym[i], Zero3)

\* Atom positions, and midpoints of pairs of atoms of one species.
SameSpeciesCenters ==
  UNION {{atpos[sp][a] : a \in 1..nAtoms(sp)} : sp \in 1..nSpecies}
  \cup UNION {{VMid(atpos[sp][a], atpos[sp][b]) :
                 a \in 1..nAtoms(sp), b \in 1..nAtoms(sp)} : sp \in 1..nSpecies}
\* Atom positions, and midpoints of pairs of atoms of any species.
AllAtoms == UNION {{atpos[sp][a] : a \in 1..nAtoms(sp)} : sp \in 1..nSpecies}
AnyPairCenters == AllAtoms \cup {VMid(p1, p2) : p1 \in AllAtoms, p2 \in AllAtoms}

KeptAt(c) == {i \in 1..Len(symLattice) : MapsBasis(symLattice[i], c)}
Better(c) == Cardinality(KeptAt(c)) > Cardinality(KeptAt(Zero3))

\* Automatic setup with the centre search on: a better centre among
\* `centers` is fatal; without that die() the positions are unchanged and
\* the group holds exactly the operations kept at zero offset.
CenterSearch(centers) ==
  (status = "constructed" /\ mode = "Automatic" /\ shouldMoveAtoms) =>
    /\ (\E c \in centers : Better(c)) => dieMsg' = "moveAtoms"
    /\ dieMsg' # "moveAtoms" =>
         /\ atpos' = atpos
         /\ Len(sym') = Cardinality(KeptAt(Zero3))
         /\ Range(sym') = {symLattice[i] : i \in KeptAt(Zero3)}

\* C8 (as claimed): a better centre at an atom or at the midpoint of any two
\* atoms, of the same or of different species, is fatal; a normal return
\* leaves the positions and the zero-offset group.
C8_AnyPairCenterIsFatal == [][CenterSearch(AnyPairCenters)]_vars

\* C8 (amended): a better centre at an atom or at the midpoint of two atoms
\* of the same species is fatal; a normal return leaves the positions and
\* the zero-offset group.
C8_SameSpeciesCenterIsFatal == [][CenterSearch(SameSpeciesCenters)]_vars

\* C8 witness: the centre search has ended the process.
C8_Witness == status = "dead" /\ dieMsg = "moveAtoms" /\ shouldMoveAtoms


\* ---------------------------------------------------- claims: reduceKmesh
Weights(list) == SumSeq([i \in 1..Len(list) |-> list[i].weight])

\* Two k-points of the list lie within tolerance of each other, or of each
\* other's negative.
Coincide(list) ==
  \E i \in 1..Len(list) : \E j \in (i + 1)..Len(list) :
    \/ circDistanceSquared(list[i].k, list[j].k) < symmThresholdSq
    \/ circDistanceSquared(list[i].k, VNeg(list[j].k)) < symmThresholdSq

\* C2 (as claimed): with the identity as the only operation, in any mode,
\* reduceKmesh returns its input unchanged.
C2_IdentityGroupPassesThrough ==
  (kpc = "returned" /\ sym = <<identity>>) => qlist = qnums

\* C2 (amended): in mode None the input is returned unchanged; in automatic
\* or manual mode with the identity as the only operation it is returned
\* unchanged exactly when no two of its k-points lie within tolerance of each
\* other or of each other's negative.
C2_IdentityGroupMergesCoincident ==
  (kpc = "returned" /\ sym = <<identity>>) =>
    (qlist = qnums <=> (mode = "None" \/ ~Coincide(qnums)))

\* C2 witness: an identity-only group, not mode None, has merged k-points.
C2_Witness ==
  /\ kpc = "returned" /\ sym = <<identity>> /\ mode # "None"
  /\ Len(qlist) < Len(qnums)

\* The k-points of `out` are k-points of `inp` in the same order, none with
\* less weight than it had.
RECURSIVE Survivors(_, _)
Survivors(out, inp) ==
  IF out = <<>> THEN TRUE
  ELSE IF inp = <<>> THEN FALSE
  ELSE \/ /\ Head(out).k = Head(inp).k
          /\ Head(out).weight >= Head(inp).weight
          /\ Survivors(Tail(out), Tail(inp))
       \/ Survivors(out, Tail(inp))

\* C3: a call of reduceKmesh returns a list of the same total weight as its
\* input, made of input k-points in their order with weights only added to,
\* and leaves the input vector as it was.
C3_WeightConserved ==
  [][(kpc = "idle" /\ kpc' = "returned") =>
       /\ Weights(qlist') = Weights(qnums)
       /\ Survivors(qlist', qnums)
       /\ qnums' = qnums]_vars

\* C3 witness: a reduction that merged weights of different k-points.
C3_Witness ==
  /\ kpc = "returned" /\ Len(qlist) < Len(qnums) /\ Len(qlist) >= 2
  /\ Weights(qlist) >= 4

\* No later state of the list is equivalent to an earlier one, with or
\* without k -> -k.
Irreducible(list) ==
  \A i \in 1..Len(list) : \A j \in (i + 1)..Len(list) :
    /\ ~Equivalent(list[i].k, list[j].k, 1)
    /\ ~Equivalent(list[i].k, list[j].k, -1)

\* C4: reduceKmesh applied to the list it returned gives that list back, and
\* after the two passes no ordered pair of equivalent states is left.
C4_Idempotent ==
  kpc = "returned" =>
    /\ reduceKmesh(qlist).qlist = qlist
    /\ mode # "None" => Irreducible(qlist)

\* C4 witness: a reduction by more than the identity that removed a state and
\* kept two.
C4_Witness ==
  /\ kpc = "returned" /\ mode # "None" /\ Len(sym) > 1
  /\ Len(qlist) = 2 /\ Len(qnums) = 3


\* ------------------------------------------------------ claims: setupMesh
groupOrder == Len(sym)
nRows == Len(symmIndex) \div groupOrder
\* The entries of row r (1-based) of the orbit table.
RowSet(r) == {symmIndex[(r - 1) * groupOrder + n] : n \in 1..groupOrder}
GridIndices == 0..(nr - 1)
Occurrences(g) == {p \in 1..Len(symmIndex) : symmIndex[p] = g}
OrbitsBuilt == status = "meshed" /\ groupOrder > 1

\* C5: after setupMesh, for any accepted set of more than one operation,
\* every grid index lies in the row of exactly one orbit seed.
C5_OrbitsPartitionGrid ==
  OrbitsBuilt =>
    \A g \in GridIndices : Cardinality({r \in 1..nRows : g \in RowSet(r)}) = 1

\* C6 (as claimed): every grid index occurs exactly once in the whole table,
\* whose length is orbitCount x groupOrder.
C6_EachPointExactlyOnce ==
  OrbitsBuilt =>
    /\ \A g \in GridIndices : Cardinality(Occurrences(g)) = 1
    /\ Len(symmIndex) = nRows * groupOrder

\* C6 (amended): the table is one row of groupOrder grid indices per orbit
\* seed, so its length is orbitCount x groupOrder; a grid point occurs once
\* per operation that maps its seed onto it, so the origin fills the first
\* row; with the identity among the operations every grid point occurs at
\* least once, and with the identity first no seed occurs in an earlier row.
C6_EachPointAtLeastOnce ==
  OrbitsBuilt =>
    /\ Len(symmIndex) = nRows * groupOrder
    /\ nRows \in 1..nr
    /\ \A p \in 1..Len(symmIndex) : symmIndex[p] \in GridIndices
    /\ RowSet(1) = {0}
    /\ identity \in Range(sym) =>
         \A g \in GridIndices : Cardinality(Occurrences(g)) >= 1
    /\ sym[1] = identity =>
         \A r1 \in 1..nRows : \A r2 \in (r1 + 1)..nRows :
           symmIndex[(r2 - 1) * groupOrder + 1] \notin RowSet(r1)

\* C6 witness: a table in which some grid index occurs more than once.
C6_Witness ==
  /\ OrbitsBuilt /\ nRows > 1 /\ identity \in Range(sym)
  /\ \E g \in GridIndices : Cardinality(Occurrences(g)) > 1

\* Divisibility, stated without the code's remainder.
Divides(d, x) == \E q \in -Abs(x)..Abs(x) : q * d = x
IsCommensurate ==
  \A n \in 1..Len(sym) : \A i \in Axes : \A j \in Axes :
    Divides(S[j], S[i] * sym[n][i][j])
CenterInvariant ==
  \A n \in 1..Len(sym) :
    circDistanceSquared(embedCenter, MatVec(sym[n], embedCenter))
      <= symmThresholdSq
MeshStep == status = "ready" /\ status' # "ready"
MeshResult ==
  /\ status' = "meshed" =>
       /\ sym' = sym /\ Len(symMesh') = Len(sym)
       /\ \A n \in 1..Len(sym) : \A i \in Axes : \A j \in Axes :
            symMesh'[n][i][j] * S[j] = S[i] * sym[n][i][j]
  /\ status' = "dead" => symmIndex' = <<>>
  /\ (C4z \in Range(sym) /\ S = <<4, 4, 4>> /\ ~embed) => status' = "meshed"
  /\ (C4z \in Range(sym) /\ S = <<3, 4, 4>>) => status' = "dead"

\* C7 (as claimed): checkFFTbox completes without a fatal error exactly when
\* every S[i]*m(i,j) is divisible by S[j]; on success the mesh matrices
\* satisfy symMesh(i,j)*S[j] = S[i]*m(i,j) and sym is unchanged, otherwise no
\* orbit table is built; the 4-fold rotation passes for S=(4,4,4) and is
\* fatal for S=(3,4,4).
C7_CompletesIffCommensurate ==
  [][MeshStep => ((status' = "meshed" <=> IsCommensurate) /\ MeshResult)]_vars

\* C7 (amended): checkFFTbox ends in the fatal "not commensurate" error
\* exactly when some S[i]*m(i,j) is not divisible by S[j], and completes
\* exactly when all are and the embedding centre, when one is active, is
\* invariant under every operation; the rest as claimed.
C7_CompletesIffCommensurateAndCentered ==
  [][MeshStep =>
       /\ dieMsg' = "incommensurate" <=> ~IsCommensurate
       /\ status' = "meshed" <=> (IsCommensurate /\ (embed => CenterInvariant))
       /\ MeshResult]_vars

\* C7 witness: the 4-fold rotation has passed on the grid (4,4,4) with
\* entries of both signs.
C7_Witness ==
  /\ status = "meshed" /\ S = <<4, 4, 4>> /\ C4z \in Range(symMesh)
  /\ Len(sym) > 2

\* The grid index nearest to c*S on axis k, halves rounded away from zero.
Nearest(k) ==
  LET x == embedCenter[k] * S[k]
      ns == {n \in -(2 * S[k])..(2 * S[k]) : 2 * Abs(x - n * Q) <= Q}
  IN CHOOSE n \in ns : \A n2 \in ns : Abs(n2) <= Abs(n)
Manhattan(a, b) == Abs(a[1] - b[1]) + Abs(a[2] - b[2]) + Abs(a[3] - b[3])
\* Grid indices at a Manhattan distance below d from iv0.
Ball(iv0, d) ==
  {iv \in ((iv0[1] - d)..(iv0[1] + d)) \X ((iv0[2] - d)..(iv0[2] + d))
          \X ((iv0[3] - d)..(iv0[3] + d)) : Manhattan(iv, iv0) < d}
\* iv/S is fixed by every operation within the tolerance.
Fixed(iv) ==
  \A n \in 1..Len(sym) :
    circDistanceSquared(GridPoint(iv), MatVec(sym[n], GridPoint(iv)))
      <= symmThresholdSq

\* C9: with an embedding centre on a commensurate grid, a centre some
\* operation moves ends the process and stays as it was; an invariant centre
\* is replaced by a grid point iv/S fixed by every operation, and no fixed
\* grid point is nearer (Manhattan distance) to iv0 = round(c*S).
C9_NearestFixedGridPoint ==
  [][(MeshStep /\ embed /\ IsCommensurate) =>
       IF ~CenterInvariant
       THEN status' = "dead" /\ embedCenter' = embedCenter
       ELSE /\ status' = "meshed"
            /\ \A k \in Axes : Divides(Q \div S[k], embedCenter'[k])
            /\ LET iv0 == [k \in Axes |-> Nearest(k)]
                   iv == [k \in Axes |-> embedCenter'[k] \div (Q \div S[k])]
               IN /\ Fixed(iv)
                  /\ \A iv2 \in Ball(iv0, Manhattan(iv, iv0)) : ~Fixed(iv2)]_vars

\* C9 witness: the centre has moved to a grid point that is not the nearest
\* grid index.
C9_Witness ==
  /\ status = "meshed" /\ embed /\ Len(sym) > 1
  /\ embedCenter = <<0, 0, Q>>
  /\ S[3] = 3


\* --------------------------------------------------- claims: spherical cache
\* C10: under any interleaving of concurrent getSphericalMatrices calls,
\* every call returns one fully computed matrix per operation, the entry of
\* each l is built once, and no entry is written after a call for it
\* returned.
C10_ConcurrentReadersSafe ==
  /\ \A t \in Threads :
       (tpc[t] = "idle" /\ tret[t] # <<>>) =>
         /\ Len(tret[t]) = Len(sym)
         /\ \A i \in 1..Len(tret[t]) : tret[t][i].filled
  /\ \A l \in Ls : nBuilt[l] <= 1 /\ ~lateWrite[l]

\* ------------------------------------------------ claims: kpointInvertList
\* Some k-point of the reduction was merged through k -> -k: the list is
\* shorter after the inversion pass than after the pass without inversion.
InversionMerged ==
  mode # "None" /\ Len(qlist) < Len(Pass(qnums, 1).list)

\* C11: after a call of reduceKmesh, in every mode, the stored
\* kpointInvertList is {+1} or {+1,-1}, and it is {+1,-1} exactly when a
\* k-point of that reduction was merged in the inversion pass.
C11_InvertListRecordsInversion ==
  kpc = "returned" =>
    /\ kpointInvertList \in {<<1>>, <<1, -1>>}
    /\ kpointInvertList = <<1, -1>> <=> InversionMerged

\* ------------------------------------------- claims: embedding-centre search
\* iv is a periodic image of the origin: a multiple of S on every axis.
OriginImage(iv) == \A k \in Axes : Divides(S[k], iv[k])
\* floor(S0/2) + floor(S1/2) + floor(S2/2)
HalfCell == (S[1] \div 2) + (S[2] \div 2) + (S[3] \div 2)

\* C12: once the embedding centre has passed the invariance check, the shell
\* search finds a grid point and the fatal "could not find a grid point"
\* outcome does not occur: a periodic image of the origin is fixed by every
\* operation and lies within Manhattan distance HalfCell of iv0, which is
\* within the search bound (S0+S1+S2)/2+1, so the point found is no farther.
C12_ShellSearchFindsGridPoint ==
  [][(MeshStep /\ embed /\ IsCommensurate /\ CenterInvariant) =>
       LET iv0 == [k \in Axes |-> Nearest(k)]
           iv == [k \in Axes |-> embedCenter'[k] \div (Q \div S[k])]
       IN /\ dieMsg' # "noGridCenter" /\ status' = "meshed"
          /\ \E o \in Ball(iv0, HalfCell + 1) : OriginImage(o) /\ Fixed(o)
          /\ HalfCell <= ((S[1] + S[2] + S[3]) \div 2) + 1
          /\ GridPoint(iv) = embedCenter'
          /\ Manhattan(iv, iv0) <= HalfCell]_vars

\* C12 witness: the search ended on the image of the origin a full HalfCell
\* away from iv0 (grid (3,3,1), centre (1/2,1/2,0), iv0 = (2,2,0)).
C12_Witness ==
  /\ status = "meshed" /\ embed /\ Len(sym) > 1
  /\ S = <<3, 3, 1>> /\ embedCenter = <<Q, Q, 0>>

=============================================================================
